---------------------------- MODULE Spec2Model ----------------------------
(***************************************************************************)
(* A model of create-context (src/src/main.rs): the selection of files,   *)
(* the directory tree walk, the per-file formatter with its test          *)
(* stripper, and the sequential or parallel pipeline of main().           *)
(*                                                                         *)
(* Text is modelled as sequences of one-character strings, so that        *)
(* starts_with, ends_with, find and the byte-wise orderings are computed  *)
(* as the code computes them.  All characters used are ASCII: one byte    *)
(* each, so a byte index of the code is a sequence index minus one.       *)
(***************************************************************************)
EXTENDS Integers, Sequences, FiniteSets, TLC

VARIABLES
    \* ---- strip_rust_tests (main.rs 288-340), one call of it
    s,              \* the source text handed to strip_rust_tests
    i,              \* the scan index (a byte offset, 0-based as in the code)
    result,         \* the String being built
    pcS,            \* "scan": in the while loop; "done": returned; "off": not in use
    iters,          \* number of iterations of the outer while loop so far
    \* ---- the environment of one run of main (main.rs 374-478)
    world,          \* the file system and the working directory
    args,           \* Args::parse(): dir, patterns, files and the four flags
    \* ---- main
    pc,             \* where main is
    file_idx,       \* explicit-file mode: index of the next element of args.files
    patterns,       \* glob mode: the compiled patterns
    walk,           \* glob mode: what the directory walker has yet to yield
    matched_files,  \* Vec<PathBuf>
    stderr,         \* what was written to the diagnostic stream
    stdout,         \* what was written to standard output
    exit_code,      \* -1 while main runs; 0 for Ok(()), 1 for Err(e)
    \* ---- walk_tree / print_tree_structure (main.rs 180-260)
    stack,          \* the frames of the active calls of walk_tree
    output,         \* lines: &mut Vec<String>
    shown,          \* for each line of output, the path it shows
    dir_count,
    file_count,
    \* ---- the formatting stage (main.rs 449-467)
    pending,        \* indices of matched_files not yet formatted
    collected,      \* the (key, chunk) pairs in the order they were produced
    outputs,        \* the pairs after sort_by
    final_output    \* the concatenated buffer

stripVars == <<s, i, result, pcS, iters>>

envVars == <<world, args>>

mainVars == <<pc, file_idx, patterns, walk, matched_files, stderr, stdout, exit_code>>

treeVars == <<stack, output, shown, dir_count, file_count>>

fmtVars == <<pending, collected, outputs, final_output>>

vars == <<s, i, result, pcS, iters, world, args, pc, file_idx, patterns,
          walk,
          matched_files, stderr, stdout, exit_code, stack, output, shown,
          dir_count, file_count, pending, collected, outputs, final_output>>

-----------------------------------------------------------------------------
(* Bounds of the model                                                     *)

\* Number of pieces (marker, module declaration, brace, other text) an input
\* of strip_rust_tests is put together from.
MaxPieces == 5

-----------------------------------------------------------------------------
(* Text helpers                                                            *)

\* str::starts_with at byte offset k: s[k..].starts_with(p)
StartsWithAt(str, k, p) ==
    /\ k + Len(p) <= Len(str)
    /\ \A n \in 1..Len(p) : str[k + n] = p[n]

\* str::find on the suffix s[k..]: the smallest offset (relative to k) at
\* which p occurs, or -1 for None.
FindFrom(str, k, p) ==
    LET hits == { o \in 0..(Len(str) - k) : StartsWithAt(str, k + o, p) }
    IN  IF hits = {} THEN -1
        ELSE CHOOSE o \in hits : \A o2 \in hits : o <= o2

\* char::len_utf8 of the characters of the model (all ASCII)
LenUtf8(ch) == 1

RECURSIVE Flatten(_)
Flatten(pieces) ==
    IF pieces = <<>> THEN <<>> ELSE Head(pieces) \o Flatten(Tail(pieces))

-----------------------------------------------------------------------------
(* strip_rust_tests                                                        *)

\* "#[cfg(test)]"
Marker == <<"#", "[", "c", "f", "g", "(", "t", "e", "s", "t", ")", "]">>

\* "mod tests"
ModTests == <<"m", "o", "d", " ", "t", "e", "s", "t", "s">>

\* The inner while loop (main.rs 302-316): from byte j with the given depth,
\* the value of j when the loop ends (by the break or by j reaching len).
RECURSIVE MatchBrace(_, _, _)
MatchBrace(str, j, depth) ==
    IF j >= Len(str) THEN j
    ELSE LET ch == str[j + 1]
         IN  IF ch = "{" THEN MatchBrace(str, j + LenUtf8(ch), depth + 1)
             ELSE IF ch = "}" THEN
                      IF depth - 1 = 0 THEN j + LenUtf8(ch)
                      ELSE MatchBrace(str, j + LenUtf8(ch), depth - 1)
             ELSE MatchBrace(str, j + LenUtf8(ch), depth)

\* Mutant of SkipMarker: the marker is not skipped.
SkipMarkerStuck(k) == k

\* i += "#[cfg(test)]".len()  (main.rs 321 and 326)
SkipMarker(k) == k + Len(Marker)

\* One iteration of the outer while loop (main.rs 292-334) from index k with
\* result r: the index and the result after it.
StripBody(str, k, r) ==
    IF StartsWithAt(str, k, Marker) THEN
        LET mod_pos == FindFrom(str, k, ModTests)
        IN  IF mod_pos # -1 THEN
                LET brace_offset == FindFrom(str, k + mod_pos, <<"{">>)
                IN  IF brace_offset # -1 THEN
                        LET start_brace == k + mod_pos + brace_offset
                        IN  [i |-> MatchBrace(str, start_brace + 1, 1), result |-> r]
                    ELSE [i |-> SkipMarker(k), result |-> r]
            ELSE [i |-> SkipMarker(k), result |-> r]
    ELSE LET ch == str[k + 1]
         IN  [i |-> k + LenUtf8(ch), result |-> Append(r, ch)]

\* The whole function, as the loop computes it.
RECURSIVE StripLoop(_, _, _)
StripLoop(str, k, r) ==
    IF k < Len(str)
    THEN LET n == StripBody(str, k, r) IN StripLoop(str, n.i, n.result)
    ELSE IF k < Len(str) THEN r \o SubSeq(str, k + 1, Len(str)) ELSE r

strip_rust_tests(str) == StripLoop(str, 0, <<>>)

\* The pieces inputs are put together from.
Pieces == { Marker, ModTests, <<"{">>, <<"}">>, <<"x">> }

RECURSIVE PieceSeqs(_)
PieceSeqs(n) ==
    IF n = 0 THEN { <<>> }
    ELSE LET shorter == PieceSeqs(n - 1)
         IN  shorter \cup { Append(q, p) : q \in { x \in shorter : Len(x) = n - 1 }, p \in Pieces }

StripInputs == { Flatten(q) : q \in PieceSeqs(MaxPieces) }

InitStrip ==
    /\ s \in StripInputs
    /\ i = 0
    /\ result = <<>>
    /\ pcS = "scan"
    /\ iters = 0
    \* main is not running
    /\ world = <<>>
    /\ args = <<>>
    /\ pc = "off"
    /\ file_idx = 0
    /\ patterns = <<>>
    /\ walk = <<>>
    /\ matched_files = <<>>
    /\ stderr = <<>>
    /\ stdout = <<>>
    /\ exit_code = -1
    /\ stack = <<>>
    /\ output = <<>>
    /\ shown = <<>>
    /\ dir_count = 0
    /\ file_count = 0
    /\ pending = {}
    /\ collected = <<>>
    /\ outputs = <<>>
    /\ final_output = <<>>

\* One iteration of `while i < len`.
StripIter ==
    /\ pcS = "scan"
    /\ i < Len(s)
    /\ LET n == StripBody(s, i, result)
       IN  /\ i' = n.i
           /\ result' = n.result
    /\ iters' = iters + 1
    /\ UNCHANGED <<s, pcS, envVars, mainVars, treeVars, fmtVars>>

\* The loop ends; the remainder (none is ever left) is appended; return.
StripReturn ==
    /\ pcS = "scan"
    /\ ~(i < Len(s))
    /\ result' = (IF i < Len(s) THEN result \o SubSeq(s, i + 1, Len(s)) ELSE result)
    /\ pcS' = "done"
    /\ UNCHANGED <<s, i, iters, envVars, mainVars, treeVars, fmtVars>>

NextStrip == StripIter \/ StripReturn

SpecStrip == InitStrip /\ [][NextStrip]_vars

-----------------------------------------------------------------------------
(* Characters and their byte order                                         *)

\* The characters of the model in ascending byte (ASCII) order; "U+0060" is
\* the backquote.
Ascii ==
    <<" ", "!", "#", "(", ")", "*", "-", ".", "/", "<", ">", "A", "B", "C",
      "D", "E", "F", "G", "H", "I", "J", "K", "L", "M", "N", "O", "P", "Q",
      "R", "S", "T", "U", "V", "W", "X", "Y", "Z", "[", "]", "_", "U+0060", "a",
      "b", "c", "d", "e", "f", "g", "h", "i", "j", "k", "l", "m", "n", "o",
      "p", "q", "r", "s", "t", "u", "v", "w", "x", "y", "z", "{", "}">>

\* The place of each character in that order
OrdTable ==
    [ch \in { Ascii[n] : n \in 1..Len(Ascii) } |->
        CHOOSE n \in 1..Len(Ascii) : Ascii[n] = ch]

Ord(ch) == OrdTable[ch]

\* str::cmp / OsStr::cmp: lexicographic on bytes.  -1, 0 or 1.
RECURSIVE StrCmp(_, _)
StrCmp(a, b) ==
    IF a = <<>> /\ b = <<>> THEN 0
    ELSE IF a = <<>> THEN -1
    ELSE IF b = <<>> THEN 1
    ELSE IF Ord(Head(a)) < Ord(Head(b)) THEN -1
    ELSE IF Ord(Head(a)) > Ord(Head(b)) THEN 1
    ELSE StrCmp(Tail(a), Tail(b))

\* str::ends_with
EndsWith(str, suffix) ==
    /\ Len(suffix) <= Len(str)
    /\ SubSeq(str, Len(str) - Len(suffix) + 1, Len(str)) = suffix

\* slice::sort_by / sort on a sequence (stable): an element comes after
\* those that are smaller and those that are equal and stood before it.
\* Cmp gives -1, 0 or 1.
SortSeqBy(seq, Cmp(_, _)) ==
    LET rank(n) == 1 + Cardinality({ m \in 1..Len(seq) :
                                       \/ Cmp(seq[m], seq[n]) < 0
                                       \/ Cmp(seq[m], seq[n]) = 0 /\ m < n })
    IN  [r \in 1..Len(seq) |-> seq[CHOOSE n \in 1..Len(seq) : rank(n) = r]]

\* A set whose elements Cmp orders strictly, as the sorted sequence.
SortSetBy(set, Cmp(_, _)) ==
    [r \in 1..Cardinality(set) |->
        CHOOSE x \in set : Cardinality({ y \in set : Cmp(y, x) < 0 }) = r - 1]

-----------------------------------------------------------------------------
(* std::path: a path is the sequence of its components                     *)

RootDir == <<"/">>        \* Component::RootDir

CurDir == <<".">>         \* Component::CurDir

ParentDir == <<".", ".">> \* Component::ParentDir

\* Component::Normal(part)
IsNormal(component) == component \notin { RootDir, CurDir, ParentDir }

\* The derived order of Component: RootDir < CurDir < ParentDir < Normal,
\* and two Normal parts by their bytes.
ComponentRank(component) ==
    IF component = RootDir THEN 1
    ELSE IF component = CurDir THEN 2
    ELSE IF component = ParentDir THEN 3
    ELSE 4

ComponentCmp(a, b) ==
    IF ComponentRank(a) < ComponentRank(b) THEN -1
    ELSE IF ComponentRank(a) > ComponentRank(b) THEN 1
    ELSE IF ComponentRank(a) = 4 THEN StrCmp(a, b)
    ELSE 0

\* Ord for Path / PathBuf: the components compared lexicographically.
RECURSIVE PathCmp(_, _)
PathCmp(a, b) ==
    IF a = <<>> /\ b = <<>> THEN 0
    ELSE IF a = <<>> THEN -1
    ELSE IF b = <<>> THEN 1
    ELSE LET c == ComponentCmp(Head(a), Head(b))
         IN  IF c # 0 THEN c ELSE PathCmp(Tail(a), Tail(b))

\* Path::display / to_string_lossy: the components joined by '/'.
RECURSIVE JoinComponents(_)
JoinComponents(path) ==
    IF path = <<>> THEN <<>>
    ELSE IF Len(path) = 1 THEN path[1]
    ELSE path[1] \o <<"/">> \o JoinComponents(Tail(path))

PathStr(path) ==
    IF path # <<>> /\ path[1] = RootDir
    THEN <<"/">> \o JoinComponents(Tail(path))
    ELSE JoinComponents(path)

\* Path::file_name as an Option: <<name>> or <<>>
file_name(path) ==
    IF path # <<>> /\ IsNormal(path[Len(path)]) THEN <<path[Len(path)]>> ELSE <<>>

\* Path::parent as an Option
parent(path) ==
    IF path = <<>> \/ path = <<RootDir>> THEN <<>>
    ELSE <<SubSeq(path, 1, Len(path) - 1)>>

\* Path::extension as an Option: what follows the last '.' of the file name,
\* unless the name has no '.' or only a leading one.
extension(path) ==
    IF file_name(path) = <<>> THEN <<>>
    ELSE LET name == file_name(path)[1]
             dots == { n \in 1..Len(name) : name[n] = "." }
         IN  IF dots = {} THEN <<>>
             ELSE LET last == CHOOSE n \in dots : \A m \in dots : m <= n
                  IN  IF last = 1 THEN <<>>
                      ELSE <<SubSeq(name, last + 1, Len(name))>>

\* Path::join with a relative path
Join(dir, rel) == dir \o rel

\* Path::strip_prefix(base).unwrap_or(path)
StripPrefixOr(path, base) ==
    IF Len(base) <= Len(path) /\ SubSeq(path, 1, Len(base)) = base
    THEN SubSeq(path, Len(base) + 1, Len(path))
    ELSE path

-----------------------------------------------------------------------------
(* The file system, as the calls of the program see it                     *)

\* The absolute path a path names: relative paths are resolved against the
\* working directory and "." components dropped.
Resolve(path) ==
    LET abs == IF path # <<>> /\ path[1] = RootDir THEN path ELSE world.cwd \o path
    IN  SelectSeq(abs, LAMBDA c : c # CurDir)

\* Path::exists, Path::is_file, Path::is_dir
exists(path) == Resolve(path) \in world.dirs \cup world.files

is_file(path) == Resolve(path) \in world.files

is_dir(path) == Resolve(path) \in world.dirs

\* Path::canonicalize as a Result: <<absolute path>>, or <<>> for the Err
\* of a path that does not exist.
canonicalize(path) == IF exists(path) THEN <<Resolve(path)>> ELSE <<>>

\* fs::read_dir(dir) as a Result: <<set of entry paths>> (each dir.join(name)),
\* or <<>> for the Err of a directory that cannot be read.
read_dir(dir) ==
    IF ~is_dir(dir) \/ Resolve(dir) \in world.unreadable THEN <<>>
    ELSE LET d == Resolve(dir)
             below == { q \in world.dirs \cup world.files :
                          Len(q) = Len(d) + 1 /\ SubSeq(q, 1, Len(d)) = d }
         IN  << { Append(dir, q[Len(q)]) : q \in below } >>

\* fs::read_to_string(path) as a Result
read_to_string(path) ==
    IF is_file(path) /\ Resolve(path) \notin world.unreadable
    THEN <<world.content[Resolve(path)]>>
    ELSE <<>>

\* WalkBuilder::new(root).standard_filters(true).follow_links(true).build():
\* the sequence of results the walker yields.  The root is yielded whatever
\* its name; below it, hidden entries and entries an ignore rule matches are
\* skipped; a directory that cannot be read yields itself and then an Err.
\* The walker's order within a directory is that of the file system; the model
\* takes the order of the names.
RECURSIVE Walk(_), WalkEach(_)
Walk(path) ==
    LET self == [ok |-> TRUE, path |-> path, is_file |-> is_file(path)]
    IN  IF ~is_dir(path) THEN <<self>>
        ELSE IF read_dir(path) = <<>>
             THEN <<self, [ok |-> FALSE, path |-> path, is_file |-> FALSE]>>
        ELSE LET kept == { e \in read_dir(path)[1] :
                             /\ Head(e[Len(e)]) # "."
                             /\ Resolve(e) \notin world.ignored }
             IN  <<self>> \o WalkEach(SortSetBy(kept, PathCmp))

WalkEach(paths) ==
    IF paths = <<>> THEN <<>> ELSE Walk(Head(paths)) \o WalkEach(Tail(paths))

-----------------------------------------------------------------------------
(* PathFilter: is_lock_file, is_excluded, is_ignored_by_gitignore,         *)
(* is_rust_test_file                                                       *)

\* main.rs 125-135
is_lock_file(path) ==
    /\ file_name(path) # <<>>
    /\ LET name == file_name(path)[1]
       IN  \/ EndsWith(name, <<".", "l", "o", "c", "k">>)
           \/ name = <<"C", "a", "r", "g", "o", ".", "l", "o", "c", "k">>
           \/ name = <<"p", "a", "c", "k", "a", "g", "e", "-", "l", "o", "c", "k", ".", "j", "s", "o", "n">>
           \/ name = <<"y", "a", "r", "n", ".", "l", "o", "c", "k">>
           \/ name = <<"P", "i", "p", "f", "i", "l", "e", ".", "l", "o", "c", "k">>
           \/ name = <<"p", "o", "e", "t", "r", "y", ".", "l", "o", "c", "k">>

\* The loop over path.components() of is_excluded (main.rs 142-150)
HasHiddenComponent(path) ==
    \E n \in 1..Len(path) : IsNormal(path[n]) /\ Head(path[n]) = "."

\* main.rs 155-168
is_ignored_by_gitignore(base_dir, file_path) ==
    LET start == IF parent(file_path) # <<>> THEN parent(file_path)[1] ELSE base_dir
        found == Walk(start)
    IN  ~ \E n \in 1..Len(found) : found[n].ok /\ found[n].path = file_path

\* main.rs 137-153
is_excluded(path, base_dir) ==
    IF is_lock_file(path) THEN TRUE
    ELSE IF HasHiddenComponent(path) THEN TRUE
    ELSE is_ignored_by_gitignore(base_dir, path)

\* main.rs 267-285
is_rust_test_file(path) ==
    /\ extension(path) = << <<"r", "s">> >>
    /\ \/ /\ file_name(path) # <<>>
          /\ \/ EndsWith(file_name(path)[1], <<"_", "t", "e", "s", "t", ".", "r", "s">>)
             \/ file_name(path)[1] = <<"t", "e", "s", "t", "s", ".", "r", "s">>
       \/ \E n \in 1..Len(path) :
              IsNormal(path[n]) /\ path[n] = <<"t", "e", "s", "t", "s">>

-----------------------------------------------------------------------------
(* ContentFormatter: determine_language, comment_syntax, process_file      *)

\* filename_to_language (main.rs 52-60)
filename_to_language ==
    { <<<<"M", "a", "k", "e", "f", "i", "l", "e">>, <<"m", "a", "k", "e">>>>,
      <<<<"C", "M", "a", "k", "e", "L", "i", "s", "t", "s", ".", "t", "x", "t">>, <<"c", "m", "a", "k", "e">>>>,
      <<<<"D", "o", "c", "k", "e", "r", "f", "i", "l", "e">>, <<"d", "o", "c", "k", "e", "r">>>>,
      <<<<".", "g", "i", "t", "i", "g", "n", "o", "r", "e">>, <<"g", "i", "t">>>>,
      <<<<"b", "u", "i", "l", "d", ".", "g", "r", "a", "d", "l", "e">>, <<"g", "r", "a", "d", "l", "e">>>>,
      <<<<"C", "a", "r", "g", "o", ".", "t", "o", "m", "l">>, <<"r", "u", "s", "t">>>>,
      <<<<"p", "a", "c", "k", "a", "g", "e", ".", "j", "s", "o", "n">>, <<"n", "o", "d", "e">>>> }

\* extension_to_language (main.rs 62-91)
extension_to_language ==
    { <<<<"r", "s">>, <<"r", "u", "s", "t">>>>,
      <<<<"z", "i", "g">>, <<"z", "i", "g">>>>,
      <<<<"z", "o", "n">>, <<"z", "i", "g">>>>,
      <<<<"g", "o">>, <<"g", "o">>>>,
      <<<<"p", "y">>, <<"p", "y", "t", "h", "o", "n">>>>,
      <<<<"c", "p", "p">>, <<"c", "p", "p">>>>,
      <<<<"c", "c">>, <<"c", "p", "p">>>>,
      <<<<"c", "x", "x">>, <<"c", "p", "p">>>>,
      <<<<"h", "p", "p">>, <<"c", "p", "p">>>>,
      <<<<"h", "h">>, <<"c", "p", "p">>>>,
      <<<<"h", "x", "x">>, <<"c", "p", "p">>>>,
      <<<<"c">>, <<"c">>>>,
      <<<<"h">>, <<"c">>>>,
      <<<<"c", "u">>, <<"c", "u", "d", "a">>>>,
      <<<<"c", "u", "h">>, <<"c", "u", "d", "a">>>>,
      <<<<"j", "s">>, <<"j", "a", "v", "a", "s", "c", "r", "i", "p", "t">>>>,
      <<<<"t", "s">>, <<"t", "y", "p", "e", "s", "c", "r", "i", "p", "t">>>>,
      <<<<"t", "o", "m", "l">>, <<"t", "o", "m", "l">>>>,
      <<<<"y", "a", "m", "l">>, <<"y", "a", "m", "l">>>>,
      <<<<"y", "m", "l">>, <<"y", "a", "m", "l">>>>,
      <<<<"j", "s", "o", "n">>, <<"j", "s", "o", "n">>>>,
      <<<<"t", "x", "t">>, <<"t", "x", "t">>>>,
      <<<<"s", "h">>, <<"b", "a", "s", "h">>>>,
      <<<<"m", "d">>, <<"m", "a", "r", "k", "d", "o", "w", "n">>>>,
      <<<<"p", "r", "o", "t", "o">>, <<"p", "r", "o", "t", "o", "b", "u", "f">>>>,
      <<<<"c", "m", "a", "k", "e">>, <<"c", "m", "a", "k", "e">>>>,
      <<<<"h", "t", "m", "l">>, <<"h", "t", "m", "l">>>>,
      <<<<"c", "s", "s">>, <<"c", "s", "s">>>> }

\* comment_syntax (main.rs 110-123): the prefix and the optional suffix
comment_syntax(language) ==
    IF language \in { <<"r", "u", "s", "t">>, <<"c", "p", "p">>, <<"c">>, <<"g", "o">>, <<"j", "a", "v", "a", "s", "c", "r", "i", "p", "t">>, <<"t", "y", "p", "e", "s", "c", "r", "i", "p", "t">>, <<"j", "a", "v", "a">>, <<"s", "w", "i", "f", "t">>, <<"k", "o", "t", "l", "i", "n">> }
        THEN [start |-> <<"/", "/">>, end |-> <<>>]
    ELSE IF language \in { <<"p", "y", "t", "h", "o", "n">>, <<"b", "a", "s", "h">>, <<"s", "h">>, <<"y", "a", "m", "l">>, <<"y", "m", "l">>, <<"t", "o", "m", "l">>, <<"m", "a", "k", "e">> }
        THEN [start |-> <<"#">>, end |-> <<>>]
    ELSE IF language \in { <<"l", "u", "a">> }
        THEN [start |-> <<"-", "-">>, end |-> <<>>]
    ELSE IF language \in { <<"h", "t", "m", "l">>, <<"x", "m", "l">> }
        THEN [start |-> <<"<", "!", "-", "-">>, end |-> <<<<"-", "-", ">">>>>]
    ELSE IF language \in { <<"c", "s", "s">>, <<"s", "c", "s", "s">> }
        THEN [start |-> <<"/", "*">>, end |-> <<<<"*", "/">>>>]
    ELSE IF language \in { <<"j", "s", "o", "n">>, <<"p", "r", "o", "t", "o", "b", "u", "f">> }
        THEN [start |-> <<"/", "/">>, end |-> <<>>]
    ELSE IF language \in { <<"m", "a", "r", "k", "d", "o", "w", "n">> }
        THEN [start |-> <<"<", "!", "-", "-">>, end |-> <<<<"-", "-", ">">>>>]
    ELSE [start |-> <<"/", "/">>, end |-> <<>>]

\* Path::new on a string: the text between separators, a leading '/' as
\* RootDir, and "." kept only as the first component.
RECURSIVE SplitAtSlash(_, _)
SplitAtSlash(str, current) ==
    IF str = <<>> THEN (IF current = <<>> THEN <<>> ELSE <<current>>)
    ELSE IF Head(str) = "/"
         THEN (IF current = <<>> THEN <<>> ELSE <<current>>) \o SplitAtSlash(Tail(str), <<>>)
    ELSE SplitAtSlash(Tail(str), Append(current, Head(str)))

PathNew(str) ==
    LET parts == SplitAtSlash(str, <<>>)
        rooted == str # <<>> /\ Head(str) = "/"
        kept == [n \in 1..Len(parts) |-> (n = 1 /\ ~rooted) \/ parts[n] # CurDir]
        comps == SelectSeq([n \in 1..Len(parts) |-> <<parts[n], kept[n]>>],
                           LAMBDA e : e[2])
    IN  (IF rooted THEN <<RootDir>> ELSE <<>>) \o [n \in 1..Len(comps) |-> comps[n][1]]

\* main.rs 51-108; "" when neither table has the file
determine_language(file_path) ==
    LET path == PathNew(file_path)
        by_name == { e \in filename_to_language :
                       file_name(path) # <<>> /\ e[1] = file_name(path)[1] }
        by_ext == { e \in extension_to_language :
                      extension(path) # <<>> /\ e[1] = extension(path)[1] }
    IN  IF by_name # {} THEN (CHOOSE e \in by_name : TRUE)[2]
        ELSE IF by_ext # {} THEN (CHOOSE e \in by_ext : TRUE)[2]
        ELSE <<>>

\* main.rs 342-366, as an Option: <<[key, text]>> or <<>>
process_file(file_path, ignore_tests) ==
    IF read_to_string(file_path) = <<>> THEN <<>>
    ELSE LET language == determine_language(PathStr(file_path))
             raw == read_to_string(file_path)[1]
             content == IF ignore_tests /\ language = <<"r", "u", "s", "t">>
                        THEN strip_rust_tests(raw) ELSE raw
             syntax == comment_syntax(language)
             header == IF syntax.end # <<>>
                       THEN syntax.start \o <<" ">> \o PathStr(file_path) \o <<" ">>
                            \o syntax.end[1] \o <<"\n">>
                       ELSE syntax.start \o <<" ">> \o PathStr(file_path) \o <<"\n">>
             buf == <<"U+0060", "U+0060", "U+0060">> \o language \o <<"\n">>
                    \o header
                    \o content
                    \o <<"U+0060", "U+0060", "U+0060", "\n">>
                    \o <<"\n">>
         IN  << [key |-> PathStr(file_path), text |-> buf] >>

-----------------------------------------------------------------------------
(* glob::Pattern, as far as the patterns of the model use it: literal      *)
(* characters, '?', '*', '**' and an unclosed '['                          *)

AnyChar == [token |-> "AnyChar"]

AnySequence == [token |-> "AnySequence"]

AnyRecursiveSequence == [token |-> "AnyRecursiveSequence"]

Char(ch) == [token |-> "Char", ch |-> ch]

\* The number of consecutive '*' of chars from index n (0-based)
RECURSIVE StarRun(_, _)
StarRun(chars, n) ==
    IF n < Len(chars) /\ chars[n + 1] = "*" THEN 1 + StarRun(chars, n + 1) ELSE 0

\* Pattern::new from index n with the tokens so far, as a Result:
\* [ok |-> TRUE, tokens |-> ...] or [ok |-> FALSE, msg |-> ...]
RECURSIVE ParsePattern(_, _, _)
ParsePattern(chars, n, tokens) ==
    IF ~(n < Len(chars)) THEN [ok |-> TRUE, tokens |-> tokens]
    ELSE LET ch == chars[n + 1]
         IN  IF ch = "?" THEN ParsePattern(chars, n + 1, Append(tokens, AnyChar))
             ELSE IF ch = "*" THEN
                 LET count == StarRun(chars, n)
                     after == n + count
                 IN  IF count > 2
                     THEN [ok |-> FALSE, msg |-> "wildcards are either regular * or recursive **"]
                     ELSE IF count = 2 THEN
                         IF after = 2 \/ chars[after - count] = "/"
                         THEN IF after < Len(chars) /\ chars[after + 1] = "/"
                              THEN ParsePattern(chars, after + 1,
                                     IF Len(tokens) > 1 /\ tokens[Len(tokens)] = AnyRecursiveSequence
                                     THEN tokens ELSE Append(tokens, AnyRecursiveSequence))
                              ELSE IF after = Len(chars)
                              THEN ParsePattern(chars, after,
                                     IF Len(tokens) > 1 /\ tokens[Len(tokens)] = AnyRecursiveSequence
                                     THEN tokens ELSE Append(tokens, AnyRecursiveSequence))
                              ELSE [ok |-> FALSE, msg |-> "recursive wildcards must form a single path component"]
                         ELSE [ok |-> FALSE, msg |-> "recursive wildcards must form a single path component"]
                     ELSE ParsePattern(chars, after, Append(tokens, AnySequence))
             ELSE IF ch = "["
                 THEN [ok |-> FALSE, msg |-> "invalid range pattern"]
             ELSE ParsePattern(chars, n + 1, Append(tokens, Char(ch)))

\* Pattern::new(p)
PatternNew(p) == ParsePattern(p, 0, <<>>)

\* Pattern::matches with the default MatchOptions (a '*' also matches '/'):
\* whether tokens from ti on match str from position pos (0-based) on.
RECURSIVE MatchesFrom(_, _, _, _)
MatchesFrom(tokens, ti, str, pos) ==
    IF ti > Len(tokens) THEN pos = Len(str)
    ELSE LET token == tokens[ti]
         IN  IF token = AnySequence
             THEN \E n \in pos..Len(str) : MatchesFrom(tokens, ti + 1, str, n)
             ELSE IF token = AnyRecursiveSequence
             THEN \/ MatchesFrom(tokens, ti + 1, str, pos)
                  \/ \E n \in (pos + 1)..Len(str) :
                         str[n] = "/" /\ MatchesFrom(tokens, ti + 1, str, n)
             ELSE IF token = AnyChar
             THEN pos < Len(str) /\ MatchesFrom(tokens, ti + 1, str, pos + 1)
             ELSE /\ pos < Len(str)
                  /\ str[pos + 1] = token.ch
                  /\ MatchesFrom(tokens, ti + 1, str, pos + 1)

matches(pat, str) == MatchesFrom(pat, 1, str, 0)

-----------------------------------------------------------------------------
(* The runs the model looks at: file systems, working directories and      *)
(* command lines                                                           *)

\* Longest list of --files or of --patterns
MaxArgs == 2

\* A file system with working directory cwd and the project root at
\* cwd/dir: the directories and files given relative to that root.
Setup(cwd, dir, rel_dirs, rel_files, ignored, unreadable) ==
    LET root == SelectSeq(cwd \o PathNew(dir), LAMBDA c : c # CurDir)
    IN  [ cwd |-> cwd,
          dir |-> dir,
          dirs |-> { SubSeq(root, 1, n) : n \in 1..Len(root) }
                   \cup { root \o d : d \in rel_dirs },
          files |-> { root \o f : f \in rel_files },
          ignored |-> { root \o p : p \in ignored },
          unreadable |-> { root \o p : p \in unreadable } ]

\* The text of a file: a.rs holds a test module between other text.
ContentOf(path) ==
    IF path[Len(path)] = <<"a", ".", "r", "s">>
    THEN <<"x">> \o Marker \o ModTests \o <<"{", "x", "}">> \o <<"y">>
    ELSE <<"x">>

Setups ==
    { \* /w, run with --dir . : a nested directory, a file whose name sorts
      \* between them, a hidden directory and a lock file
      Setup(<<RootDir, <<"w">>>>, <<".">>,
            { << <<"s">> >>, << <<".", "h">> >> },
            { << <<"a", ".", "r", "s">> >>,
              << <<"s">>, <<"z", ".", "t", "x", "t">> >>,
              << <<"s", "-", "a">> >>,
              << <<".", "h">>, <<"k", ".", "t", "x", "t">> >>,
              << <<"x", ".", "l", "o", "c", "k">> >> },
            {}, {}),
      \* /w, run with --dir . : a directory named like a lock file, Rust test
      \* files
      Setup(<<RootDir, <<"w">>>>, <<".">>,
            { << <<"d", ".", "l", "o", "c", "k">> >>, << <<"t", "e", "s", "t", "s">> >> },
            { << <<"a", ".", "r", "s">> >>,
              << <<"d", ".", "l", "o", "c", "k">>, <<"f", ".", "t", "x", "t">> >>,
              << <<"t", "_", "t", "e", "s", "t", ".", "r", "s">> >>,
              << <<"t", "e", "s", "t", "s">>, <<"u", ".", "r", "s">> >> },
            {}, {}),
      \* /w, run with --dir . : a directory that cannot be read, a file an
      \* ignore rule matches, a file that is not UTF-8 text
      Setup(<<RootDir, <<"w">>>>, <<".">>,
            { << <<"u">> >>, << <<"s">> >> },
            { << <<"a", ".", "r", "s">> >>,
              << <<"g", ".", "t", "x", "t">> >>,
              << <<"u">>, <<"f", ".", "t", "x", "t">> >>,
              << <<"s">>, <<"z", ".", "t", "x", "t">> >> },
            { << <<"g", ".", "t", "x", "t">> >> },
            { << <<"u">> >>, << <<"s">>, <<"z", ".", "t", "x", "t">> >> }),
      \* /w, run with --dir .r : the root directory has a dotted name
      Setup(<<RootDir, <<"w">>>>, <<".", "r">>,
            { << <<"s">> >> },
            { << <<"a", ".", "r", "s">> >>,
              << <<"s">>, <<"z", ".", "t", "x", "t">> >> },
            {}, {}),
      \* /.w, run with --dir . : the working directory has a dotted name
      Setup(<<RootDir, <<".", "w">>>>, <<".">>,
            { << <<"s">> >> },
            { << <<"a", ".", "r", "s">> >>,
              << <<"s">>, <<"z", ".", "t", "x", "t">> >> },
            {}, {}) }

\* What --files may list: a file, a name that does not exist (a.rs and s
\* exist in every setup but the second, which has no s), a directory.
FileArgs ==
    { <<"a", ".", "r", "s">>,
      <<"m", "i", "s", "s", "i", "n", "g", ".", "t", "x", "t">>,
      <<"s">> }

\* What --patterns may list: "**/*", "*.rs" and the unparseable "["
PatternArgs ==
    { <<"*", "*", "/", "*">>, <<"*", ".", "r", "s">>, <<"[">> }

RECURSIVE ListsOf(_, _)
ListsOf(set, n) ==
    IF n = 0 THEN { <<>> }
    ELSE LET shorter == ListsOf(set, n - 1)
         IN  shorter \cup { Append(q, x) : q \in { l \in shorter : Len(l) = n - 1 }, x \in set }

\* --patterns and --files conflict (main.rs 24, 33); neither may be given.
MatchSpecs ==
    { [patterns |-> p, files |-> <<>>] : p \in ListsOf(PatternArgs, MaxArgs) }
    \cup { [patterns |-> <<>>, files |-> f] : f \in ListsOf(FileArgs, MaxArgs) \ { <<>> } }

\* Path::new(&args.dir)
BaseDir == PathNew(args.dir)

Init ==
    /\ \E setup \in Setups, spec \in MatchSpecs, flags \in [1..4 -> BOOLEAN] :
         /\ world = [ cwd |-> setup.cwd, dirs |-> setup.dirs, files |-> setup.files,
                      ignored |-> setup.ignored, unreadable |-> setup.unreadable,
                      content |-> [f \in setup.files |-> ContentOf(f)] ]
         /\ args = [ dir |-> setup.dir, patterns |-> spec.patterns, files |-> spec.files,
                     no_tree |-> flags[1], parallel |-> flags[2],
                     count_tokens |-> flags[3], ignore_tests |-> flags[4] ]
    /\ pc = (IF args.files # <<>> THEN "select" ELSE "patterns")
    /\ file_idx = 1
    /\ patterns = <<>>
    /\ walk = <<>>
    /\ matched_files = <<>>
    /\ stderr = <<>>
    /\ stdout = <<>>
    /\ exit_code = -1
    /\ stack = <<>>
    /\ output = <<>>
    /\ shown = <<>>
    /\ dir_count = 0
    /\ file_count = 0
    /\ pending = {}
    /\ collected = <<>>
    /\ outputs = <<>>
    /\ final_output = <<>>
    \* no call of strip_rust_tests is looked at on its own
    /\ s = <<>>
    /\ i = 0
    /\ result = <<>>
    /\ pcS = "off"
    /\ iters = 0

-----------------------------------------------------------------------------
(* Selector: main.rs 379-442                                               *)

\* main returns Err(e): the error is reported and the process exits with 1.
Abort(what, path) ==
    /\ pc' = "exit"
    /\ exit_code' = 1
    /\ stderr' = Append(stderr, [kind |-> "Error", what |-> what, path |-> path])

\* matched_files.sort() (main.rs 442)
SortMatched(files) == SortSeqBy(files, PathCmp)

\* The end of either selection loop: the sort, then the tree or, with
\* --no-tree, the formatting stage.
AfterSelection ==
    /\ matched_files' = SortMatched(matched_files)
    /\ IF ~args.no_tree
       THEN pc' = "tree" /\ pending' = pending
       ELSE pc' = "format" /\ pending' = 1..Len(matched_files)
    /\ UNCHANGED <<stderr, stdout, exit_code, file_idx, patterns, walk>>
    /\ UNCHANGED <<envVars, stripVars, treeVars, collected, outputs, final_output>>

\* One iteration of `for file in &args.files` (main.rs 380-397)
SelectFile ==
    /\ pc = "select"
    /\ file_idx <= Len(args.files)
    /\ LET file == args.files[file_idx]
           joined == Join(BaseDir, PathNew(file))
           canon == canonicalize(joined)
       IN  IF canon = <<>>
           THEN \* canonicalize()? returns the error from main
                /\ Abort("canonicalize", joined)
                /\ UNCHANGED <<matched_files, file_idx>>
           ELSE LET full_path == canon[1]
                IN  /\ IF ~exists(full_path) \/ ~is_file(full_path)
                       THEN /\ stderr' = Append(stderr, [kind |-> "Warning: not a valid file",
                                                         path |-> full_path])
                            /\ UNCHANGED matched_files
                       ELSE IF is_excluded(full_path, BaseDir)
                       THEN UNCHANGED <<stderr, matched_files>>
                       ELSE IF args.ignore_tests /\ is_rust_test_file(full_path)
                       THEN UNCHANGED <<stderr, matched_files>>
                       ELSE /\ matched_files' = Append(matched_files, full_path)
                            /\ UNCHANGED stderr
                    /\ file_idx' = file_idx + 1
                    /\ UNCHANGED <<pc, exit_code>>
    /\ UNCHANGED <<patterns, walk, stdout>>
    /\ UNCHANGED <<envVars, stripVars, treeVars, fmtVars>>

EndSelect ==
    /\ pc = "select"
    /\ file_idx > Len(args.files)
    /\ AfterSelection

\* main.rs 399-414: the patterns that parse are kept, the others reported;
\* the walker is built.
CompilePatterns ==
    /\ pc = "patterns"
    /\ LET parsed == [n \in 1..Len(args.patterns) |-> PatternNew(args.patterns[n])]
           good == SelectSeq(parsed, LAMBDA r : r.ok)
           bad == SelectSeq([n \in 1..Len(args.patterns) |->
                                [kind |-> "Invalid glob pattern",
                                 pattern |-> args.patterns[n],
                                 ok |-> parsed[n].ok]],
                            LAMBDA r : ~r.ok)
       IN  /\ patterns' = [n \in 1..Len(good) |-> good[n].tokens]
           /\ stderr' = stderr \o bad
    /\ walk' = Walk(BaseDir)
    /\ pc' = "walk"
    /\ UNCHANGED <<file_idx, matched_files, stdout, exit_code>>
    /\ UNCHANGED <<envVars, stripVars, treeVars, fmtVars>>

\* One iteration of the loop over the walker (main.rs 411-439)
WalkEntry ==
    /\ pc = "walk"
    /\ walk # <<>>
    /\ LET entry == Head(walk)
       IN  IF ~entry.ok
           THEN /\ stderr' = Append(stderr, [kind |-> "Error reading directory entry",
                                             path |-> entry.path])
                /\ UNCHANGED matched_files
           ELSE /\ UNCHANGED stderr
                /\ IF entry.is_file /\ ~is_excluded(entry.path, BaseDir)
                   THEN IF args.ignore_tests /\ is_rust_test_file(entry.path)
                        THEN UNCHANGED matched_files
                        ELSE LET relative_path == StripPrefixOr(entry.path, BaseDir)
                                 relative_path_str == PathStr(relative_path)
                             IN  IF \E n \in 1..Len(patterns) :
                                        matches(patterns[n], relative_path_str)
                                 THEN matched_files' = Append(matched_files, entry.path)
                                 ELSE UNCHANGED matched_files
                   ELSE UNCHANGED matched_files
    /\ walk' = Tail(walk)
    /\ UNCHANGED <<pc, file_idx, patterns, stdout, exit_code>>
    /\ UNCHANGED <<envVars, stripVars, treeVars, fmtVars>>

EndWalk ==
    /\ pc = "walk"
    /\ walk = <<>>
    /\ AfterSelection

-----------------------------------------------------------------------------
(* TreeRenderer: tree_entry_sort, walk_tree, print_tree_structure          *)

\* The line-drawing characters, each one element of a line:
\* U+2514 is the corner, U+251C the tee, U+2500 the dash, U+2502 the bar.
LastConnector == <<"U+2514", "U+2500", "U+2500", " ">>

MidConnector == <<"U+251C", "U+2500", "U+2500", " ">>

Connector(is_last) == IF is_last THEN LastConnector ELSE MidConnector

\* format!("{prefix}{}", if is_last { "    " } else { "│   " })  (main.rs 207)
NewPrefix(prefix, is_last) ==
    prefix \o (IF is_last THEN <<" ", " ", " ", " ">> ELSE <<"U+2502", " ", " ", " ">>)

\* main.rs 170-178: directories first, then by file name
tree_entry_sort(a, b) ==
    IF is_dir(a) /\ ~is_dir(b) THEN -1
    ELSE IF ~is_dir(a) /\ is_dir(b) THEN 1
    ELSE StrCmp(a[Len(a)], b[Len(b)])

\* main.rs 196-201: fs::read_dir(dir)?, the entries is_excluded keeps, sorted.
\* <<entries>>, or <<>> when read_dir fails.
TreeEntries(dir) ==
    IF read_dir(dir) = <<>> THEN <<>>
    ELSE << SortSetBy({ e \in read_dir(dir)[1] : ~is_excluded(e, BaseDir) },
                      tree_entry_sort) >>

\* main.rs 189-194: the line a call of walk_tree pushes for its directory
DirLine(dir, prefix, is_last) ==
    IF prefix = <<>> THEN << <<".">> >>
    ELSE IF file_name(dir) # <<>>
         THEN << prefix \o Connector(is_last) \o file_name(dir)[1] >>
    ELSE <<>>

\* Mutant of CountFile: a file is printed but not counted.
CountFileNot(n) == n

\* *file_count += 1  (main.rs 221)
CountFile(n) == n + 1

\* *dir_count += 1  (main.rs 210)
CountDir(n) == n + 1

\* The start of a call walk_tree(dir, prefix, is_last, ...) on top of the
\* frames below: its line is pushed and its entries are read (main.rs
\* 189-203).  When read_dir fails, the `?` of every active call returns the
\* error, print_tree_structure returns it and so does main (main.rs 445).
EnterDir(dir, prefix, is_last, below) ==
    /\ output' = output \o DirLine(dir, prefix, is_last)
    /\ shown' = shown \o [n \in 1..Len(DirLine(dir, prefix, is_last)) |-> dir]
    /\ IF TreeEntries(dir) = <<>>
       THEN /\ Abort("read_dir", dir)
            /\ stack' = <<>>
       ELSE /\ stack' = Append(below, [dir |-> dir, prefix |-> prefix, is_last |-> is_last,
                                       entries |-> TreeEntries(dir)[1], i |-> 0])
            /\ pc' = "walking"
            /\ UNCHANGED <<stderr, exit_code>>

\* print_tree_structure up to the first call of walk_tree (main.rs 238-249)
TreeStart ==
    /\ pc = "tree"
    /\ dir_count' = 1
    /\ file_count' = 0
    /\ EnterDir(BaseDir, <<>>, TRUE, <<>>)
    /\ UNCHANGED <<file_idx, patterns, walk, matched_files, stdout>>
    /\ UNCHANGED <<envVars, stripVars, fmtVars>>

\* One iteration of the loop over the entries (main.rs 204-232) in the
\* innermost call; for a directory, up to the loop of the recursive call.
TreeEntry ==
    /\ pc = "walking"
    /\ stack # <<>>
    /\ LET frame == stack[Len(stack)]
       IN  /\ frame.i < Len(frame.entries)
           /\ LET path == frame.entries[frame.i + 1]
                  is_last_entry == frame.i = Len(frame.entries) - 1
                  new_prefix == NewPrefix(frame.prefix, frame.is_last)
                  advanced == [stack EXCEPT ![Len(stack)].i = frame.i + 1]
              IN  IF is_dir(path)
                  THEN /\ dir_count' = CountDir(dir_count)
                       /\ EnterDir(path, new_prefix, is_last_entry, advanced)
                       /\ UNCHANGED file_count
                  ELSE /\ file_count' = CountFile(file_count)
                       /\ output' = Append(output, new_prefix \o Connector(is_last_entry)
                                                   \o path[Len(path)])
                       /\ shown' = Append(shown, path)
                       /\ stack' = advanced
                       /\ UNCHANGED <<dir_count, pc, stderr, exit_code>>
    /\ UNCHANGED <<file_idx, patterns, walk, matched_files, stdout>>
    /\ UNCHANGED <<envVars, stripVars, fmtVars>>

\* The loop of the innermost call is over: Ok(()) (main.rs 234)
TreeReturn ==
    /\ pc = "walking"
    /\ stack # <<>>
    /\ stack[Len(stack)].i = Len(stack[Len(stack)].entries)
    /\ stack' = SubSeq(stack, 1, Len(stack) - 1)
    /\ UNCHANGED <<output, shown, dir_count, file_count>>
    /\ UNCHANGED <<envVars, stripVars, mainVars, fmtVars>>

\* The outermost call has returned: the lines and the counts are printed
\* (main.rs 251-259, 446) and main goes on to format the files.
TreePrint ==
    /\ pc = "walking"
    /\ stack = <<>>
    /\ stdout' = stdout
                 \o << [kind |-> "tree", lines |-> output,
                        directories |-> dir_count, files |-> file_count] >>
    /\ pc' = "format"
    /\ pending' = 1..Len(matched_files)
    /\ UNCHANGED <<file_idx, patterns, walk, matched_files, stderr, exit_code>>
    /\ UNCHANGED <<envVars, stripVars, treeVars, collected, outputs, final_output>>

-----------------------------------------------------------------------------
(* Pipeline: main.rs 449-477                                               *)

\* |a, b| a.0.cmp(&b.0)
KeyCmp(a, b) == StrCmp(a.key, b.key)

\* Mutant of SortOutputs: the pairs are left in the order they were collected.
SortOutputsNot(pairs) == pairs

\* outputs.sort_by(|a, b| a.0.cmp(&b.0))  (main.rs 462)
SortOutputs(pairs) == SortSeqBy(pairs, KeyCmp)

\* main.rs 464-467
RECURSIVE Concatenate(_)
Concatenate(pairs) ==
    IF pairs = <<>> THEN <<>> ELSE Head(pairs).text \o Concatenate(Tail(pairs))

\* The sequential branch (main.rs 455-458): the file of the loop's next
\* iteration is formatted.
FormatNext ==
    /\ pc = "format"
    /\ ~args.parallel
    /\ pending # {}
    /\ LET n == CHOOSE m \in pending : \A o \in pending : m <= o
       IN  /\ collected' = collected \o process_file(matched_files[n], args.ignore_tests)
           /\ pending' = pending \ {n}
    /\ UNCHANGED <<outputs, final_output>>
    /\ UNCHANGED <<envVars, stripVars, mainVars, treeVars>>

\* The parallel branch (main.rs 450-453): some worker formats some file not
\* yet formatted.  The pairs are kept in the order the workers produce them,
\* which covers every order collect() can return them in.
FormatAny ==
    /\ pc = "format"
    /\ args.parallel
    /\ \E n \in pending :
         /\ collected' = collected \o process_file(matched_files[n], args.ignore_tests)
         /\ pending' = pending \ {n}
    /\ UNCHANGED <<outputs, final_output>>
    /\ UNCHANGED <<envVars, stripVars, mainVars, treeVars>>

\* main.rs 461-477: the sort, the concatenation, and the buffer written to
\* standard output or its tokens counted; Ok(()).
Finish ==
    /\ pc = "format"
    /\ pending = {}
    /\ outputs' = SortOutputs(collected)
    /\ final_output' = Concatenate(outputs')
    /\ IF args.count_tokens
       THEN /\ stderr' = Append(stderr, [kind |-> "Token count", text |-> final_output'])
            /\ UNCHANGED stdout
       ELSE /\ stdout' = Append(stdout, [kind |-> "content", bytes |-> final_output'])
            /\ UNCHANGED stderr
    /\ pc' = "exit"
    /\ exit_code' = 0
    /\ UNCHANGED <<file_idx, patterns, walk, matched_files, pending, collected>>
    /\ UNCHANGED <<envVars, stripVars, treeVars>>

Next ==
    \/ SelectFile
    \/ EndSelect
    \/ CompilePatterns
    \/ WalkEntry
    \/ EndWalk
    \/ TreeStart
    \/ TreeEntry
    \/ TreeReturn
    \/ TreePrint
    \/ FormatNext
    \/ FormatAny
    \/ Finish

Spec == Init /\ [][Next]_vars

-----------------------------------------------------------------------------
(* Claims about the pipeline, checked under Spec                           *)

\* What the sequential branch collects from the files, in their order
RECURSIVE SequentialPairs(_, _)
SequentialPairs(files, ignore_tests) ==
    IF files = <<>> THEN <<>>
    ELSE process_file(Head(files), ignore_tests)
         \o SequentialPairs(Tail(files), ignore_tests)

\* C1: when main has finished, in sequential and in parallel mode and for
\* every order in which the workers completed, the final buffer is the
\* concatenation of the chunks in ascending order of their path key, and is
\* the buffer the sequential mode produces for the same selected files.
C1_OrderInvariance ==
    (pc = "exit" /\ exit_code = 0) =>
        /\ \A a, b \in 1..Len(outputs) :
               a < b => StrCmp(outputs[a].key, outputs[b].key) <= 0
        /\ final_output = Concatenate(outputs)
        /\ final_output =
               Concatenate(SortOutputs(SequentialPairs(matched_files, args.ignore_tests)))

\* A parallel run has finished whose workers completed in another order
\* than that of the keys.
C1_Witness ==
    /\ pc = "exit"
    /\ exit_code = 0
    /\ args.parallel
    /\ Len(collected) >= 2
    /\ collected # outputs

SelectionDone == pc \in { "tree", "walking", "format" }

\* C2: after selection, in either mode, matched_files holds each path at
\* most once and is sorted ascending by the full path string, byte by byte.
C2_SelectionDistinctSorted ==
    SelectionDone =>
        /\ \A a, b \in 1..Len(matched_files) :
               a # b => matched_files[a] # matched_files[b]
        /\ \A a, b \in 1..Len(matched_files) :
               a < b => StrCmp(PathStr(matched_files[a]), PathStr(matched_files[b])) <= 0

\* The path main builds for the n-th listed file before canonicalize
Listed(n) == Join(BaseDir, PathNew(args.files[n]))

\* C3: in explicit-file mode (the tree switched off, so that nothing else
\* can fail), a listed file that does not exist or is not a regular file is
\* warned about and skipped: the run ends with exit status zero, and when
\* no listed file is a regular file, with an empty selection and an empty
\* final buffer.
C3_MissingFileSkipped ==
    ( /\ pc = "exit"
      /\ args.files # <<>>
      /\ args.no_tree
      /\ \E n \in 1..Len(args.files) : ~is_file(Listed(n)) )
    => /\ exit_code = 0
       /\ \E m \in 1..Len(stderr) : stderr[m].kind = "Warning: not a valid file"
       /\ (\A n \in 1..Len(args.files) : ~is_file(Listed(n)))
              => matched_files = <<>> /\ final_output = <<>>

\* C4: in glob mode with a single pattern that does not parse, the run ends
\* with a diagnostic and a nonzero exit status, and writes no content.
C4_InvalidPatternFatal ==
    ( /\ pc = "exit"
      /\ args.files = <<>>
      /\ Len(args.patterns) = 1
      /\ ~PatternNew(args.patterns[1]).ok )
    => /\ exit_code # 0
       /\ \E m \in 1..Len(stderr) : stderr[m].kind = "Invalid glob pattern"
       /\ \A m \in 1..Len(stdout) : stdout[m].kind # "content"

\* Some component of the path below the root starts with '.'
DottedBelowRoot(path, root) ==
    LET below == StripPrefixOr(path, root)
    IN  \E n \in 1..Len(below) : IsNormal(below[n]) /\ Head(below[n]) = "."

\* The exclusion rule with the hidden-component rule as C5 states it
ExcludedBelowRoot(path, root) ==
    \/ is_lock_file(path)
    \/ DottedBelowRoot(path, root)
    \/ is_ignored_by_gitignore(root, path)

\* C5: the hidden-component rule looks only at the components below the
\* root.  In explicit-file mode a listed regular file (not skipped as a
\* test file) is selected exactly when no lock-file rule, no dotted
\* component below the canonical root and no ignore rule excludes it; in glob
\* mode the same holds of every regular file the walker yields that some
\* pattern matches.
C5_HiddenRuleBelowRoot ==
    SelectionDone =>
        /\ \A n \in 1..Len(args.files) :
               (is_file(Listed(n))
                /\ ~(args.ignore_tests /\ is_rust_test_file(Resolve(Listed(n)))))
               => ( (\E m \in 1..Len(matched_files) : matched_files[m] = Resolve(Listed(n)))
                    <=> ~ExcludedBelowRoot(Resolve(Listed(n)), Resolve(BaseDir)) )
        /\ args.files = <<>> =>
               \A e \in { Walk(BaseDir)[n] : n \in 1..Len(Walk(BaseDir)) } :
                   ( /\ e.ok
                     /\ e.is_file
                     /\ ~(args.ignore_tests /\ is_rust_test_file(e.path))
                     /\ \E n \in 1..Len(patterns) :
                            matches(patterns[n], PathStr(StripPrefixOr(e.path, BaseDir))) )
                   => ( (\E m \in 1..Len(matched_files) : matched_files[m] = e.path)
                        <=> ~ExcludedBelowRoot(e.path, BaseDir) )

\* The name a printed tree line shows: what follows the last blank
NameOfLine(line) ==
    LET blanks == { n \in 1..Len(line) : line[n] = " " }
        from == IF blanks = {} THEN 0 ELSE CHOOSE n \in blanks : \A m \in blanks : m <= n
    IN  SubSeq(line, from + 1, Len(line))

\* The names on the file lines of the printed tree
LeafNames == { NameOfLine(output[n]) : n \in { m \in 1..Len(output) : ~is_dir(shown[m]) } }

\* The base names of the selected files
BaseNames == { matched_files[n][Len(matched_files[n])] : n \in 1..Len(matched_files) }

\* C7: in glob mode with the one pattern "**/*", for every tree and every
\* setting of the flags under which the tree is printed, the names on the
\* file lines of the tree are the base names of the selected files.
C7_TreeContentAgreement ==
    ( /\ pc = "exit"
      /\ exit_code = 0
      /\ ~args.no_tree
      /\ args.files = <<>>
      /\ args.patterns = << <<"*", "*", "/", "*">> >> )
    => LeafNames = BaseNames

\* C8: a directory that cannot be read is skipped, by the selector's walk
\* and by the tree walk alike: in glob mode, where nothing else can fail,
\* the run ends with exit status zero and the selected files formatted and
\* emitted.
C8_ReadErrorRecoverable ==
    ( /\ pc = "exit"
      /\ args.files = <<>>
      /\ world.unreadable \cap world.dirs # {} )
    => /\ exit_code = 0
       /\ final_output = Concatenate(SortOutputs(
                             SequentialPairs(matched_files, args.ignore_tests)))

IsPrefix(a, b) == Len(a) <= Len(b) /\ SubSeq(b, 1, Len(a)) = a

\* The tree walk has started
TreeStarted == dir_count > 0

\* C9: from the start of the tree walk to its end, the directory counter is
\* 1 (the root) plus the number of lines of subdirectories, the file counter
\* is the number of file lines, and so the number of lines is their sum; the
\* lines stand in depth-first order (the line of an entry comes after the
\* line of its directory, and the lines below a directory are contiguous);
\* and a step only appends to the lines.
C9_TreeCountsAndOrder ==
    /\ [](TreeStarted =>
            /\ Len(shown) = Len(output)
            /\ dir_count = 1 + Cardinality({ n \in 2..Len(shown) : is_dir(shown[n]) })
            /\ file_count = Cardinality({ n \in 1..Len(shown) : ~is_dir(shown[n]) })
            /\ Len(output) = dir_count + file_count
            /\ \A n \in 2..Len(shown) :
                   \E m \in 1..(n - 1) : << shown[m] >> = parent(shown[n])
            /\ \A a, b, c \in 1..Len(shown) :
                   (a < b /\ b < c /\ IsPrefix(shown[a], shown[c]))
                   => IsPrefix(shown[a], shown[b]))
    /\ [][IsPrefix(output, output')]_vars

\* A tree walk has ended that went into a subdirectory and printed files.
C9_Witness ==
    /\ pc = "format"
    /\ stack = <<>>
    /\ dir_count >= 2
    /\ file_count >= 2
    /\ Len(output) = 5

-----------------------------------------------------------------------------
(* Claims about strip_rust_tests, checked under SpecStrip                  *)

Count(str, from, to, ch) == Cardinality({ n \in from..to : str[n] = ch })

\* For an opening brace at byte open, the byte after its matching closing
\* brace; -1 when it has none.
ClosedAt(str, open) ==
    LET ends == { e \in (open + 2)..Len(str) :
                    /\ str[e] = "}"
                    /\ Count(str, open + 2, e, "}") = 1 + Count(str, open + 2, e, "{") }
    IN  IF ends = {} THEN -1 ELSE CHOOSE e \in ends : \A e2 \in ends : e <= e2

\* The spans <<p, e>> of bytes from a marker at p, over a module declaration
\* that follows it and an opening brace that follows that, to the byte before
\* e, the end of the brace's balanced body
Spans(str) ==
    { sp \in (0..Len(str)) \X (0..Len(str)) :
        /\ StartsWithAt(str, sp[1], Marker)
        /\ \E t \in (sp[1] + Len(Marker))..Len(str) :
              /\ StartsWithAt(str, t, ModTests)
              /\ \E open \in (t + Len(ModTests))..(Len(str) - 1) :
                    /\ str[open + 1] = "{"
                    /\ ClosedAt(str, open) = sp[2] }

\* C6: for a text that holds a marker followed by a module declaration with
\* a balanced brace body, strip_rust_tests returns the text without exactly
\* such a span, every byte outside it unchanged and in order.
C6_ExactSpanRemoved ==
    (pcS = "done" /\ Spans(s) # {}) =>
        \E sp \in Spans(s) :
            result = SubSeq(s, 1, sp[1]) \o SubSeq(s, sp[2] + 1, Len(s))

\* C10: strip_rust_tests returns on every input: every iteration of the
\* scan moves the index forward, by one character, by the length of the
\* marker, or past the marker and the module declaration to the end of the
\* removed region; the index never passes the length of the input, so there
\* are at most as many iterations as the input has bytes; and the index is
\* the length of the input when the function returns.
C10_StripTerminates ==
    /\ [][pcS' = "scan" =>
            /\ i' > i
            /\ \/ i' = i + 1
               \/ i' = i + Len(Marker)
               \/ StartsWithAt(s, i, Marker) /\ i' > i + Len(Marker) + Len(ModTests)]_vars
    /\ [](iters <= i /\ i <= Len(s))
    /\ [](pcS = "done" => i = Len(s))

\* The function has returned on an input with a removed region and, after
\* it, a marker that no module declaration follows.
C10_Witness ==
    /\ pcS = "done"
    /\ s = Marker \o ModTests \o <<"{", "}">> \o Marker
    /\ i = Len(s)
    /\ iters = 2

=============================================================================
